---- MODULE Spec2Model ----
(***************************************************************************)
(* Model of the game server (server/server.js, second listing of          *)
(* src/unnamed/part_000, lines 217-570): the gameSessions registry, the   *)
(* WebSocket handlers (message, close), the game-logic functions and the  *)
(* 40 second reading timer.  Node runs every handler to completion, so    *)
(* each handler and each timer callback is one atomic action.             *)
(***************************************************************************)
EXTENDS Integers, Sequences, FiniteSets, TLC

\* ---- bounds of the model ------------------------------------------------
NumClients == 3        \* connections the server accepts in a run
NumCodes == 2          \* room codes generateRoomCode can draw
MaxRoomSize == 3       \* players a room grows to
NumTargets == 1        \* ids a VOTE can name
MaxTimers == 1         \* reading timers pending at the same time
MaxScore == 1          \* highest score a player is taken to

\* ---- program constants ----------------------------------------------------
RoomCapacity == 8      \* joinRoom: players.length >= 8
MinPlayers == 3        \* startGame: players.length < 3
WinScore == 10         \* calculateScores: player.score >= 10

Clients == 1..NumClients
Codes == 1..NumCodes
VoteTargets == 1..NumTargets
Null == 0              \* null / undefined client id
PlayerNames == {"ann"}
Texts == {"hello"}
Sounds == {"A"}

VARIABLES
    gameSessions,      \* roomCode -> session, DOMAIN = the live rooms
    conn,              \* clientId -> "none" | "open" | "closed" (ws.readyState)
    timers,            \* pending setTimeout callbacks, oldest first (see Timer)
    sent,              \* the messages sent by the last handler: [to, type, text]
    gained             \* roomCode -> clientId -> calculateScores runs that raised
                       \* the client's score since the room's last startNewRound

vars == <<gameSessions, conn, timers, sent, gained>>

\* ---- helpers ----------------------------------------------------------------
Range(s) == {s[i] : i \in DOMAIN s}

EmptyVotes == [c \in {} |-> Null]

PlayerIds(session) == {session.players[i].clientId : i \in DOMAIN session.players}

ZeroGained == [c \in Clients |-> 0]

Message(to, type, text) == [to |-> to, type |-> type, text |-> text]

\* ws.send(JSON.stringify({type: "ERROR", payload: {message: text}}))
ErrorTo(c, text) == {Message(c, "ERROR", text)}

\* broadcastToRoom on a session, given the readyState of every connection
broadcastToRoom(session, connState, type, excludeClientId) ==
    {Message(session.players[i].clientId, type, "") :
        i \in {j \in DOMAIN session.players :
                 /\ session.players[j].clientId # excludeClientId
                 /\ connState[session.players[j].clientId] = "open"}}

\* gameSessions[roomCode] = session
PutSession(roomCode, session) ==
    [r \in DOMAIN gameSessions \cup {roomCode} |->
        IF r = roomCode THEN session ELSE gameSessions[r]]

\* close without the delete: the room stays, its last player spliced out (C13)
DeleteSessionKept(roomCode) ==
    [r \in DOMAIN gameSessions |->
        IF r = roomCode THEN [gameSessions[r] EXCEPT !.players = <<>>]
                        ELSE gameSessions[r]]

\* delete gameSessions[roomCode]
DeleteSession(roomCode) ==
    [r \in DOMAIN gameSessions \ {roomCode} |-> gameSessions[r]]

PutGained(roomCode, g) ==
    [r \in DOMAIN gained \cup {roomCode} |-> IF r = roomCode THEN g ELSE gained[r]]

\* ---- connection ---------------------------------------------------------------
Init ==
    /\ gameSessions = [r \in {} |-> Null]
    /\ conn = [c \in Clients |-> "none"]
    /\ timers = <<>>
    /\ sent = {}
    /\ gained = [r \in {} |-> ZeroGained]

Connection(c) ==
    /\ conn[c] = "none"
    /\ conn' = [conn EXCEPT ![c] = "open"]
    /\ sent' = {Message(c, "YOUR_CLIENT_ID", "")}
    /\ UNCHANGED <<gameSessions, timers, gained>>

\* ---- createRoom / joinRoom ------------------------------------------------------
NewPlayer(clientId, playerName) ==
    [clientId |-> clientId, playerName |-> playerName, score |-> 0]

NewSession(roomCode, clientId, playerName) ==
    [roomCode |-> roomCode,
     hostId |-> clientId,
     players |-> <<NewPlayer(clientId, playerName)>>,
     gameState |-> "LOBBY",
     rounds |-> [currentTyperId |-> Null,
                 playersWhoHaveTyped |-> <<>>,
                 submittedText |-> "",
                 votes |-> EmptyVotes]]

\* generateRoomCode without the do-while test on gameSessions[code] (C20)
generateRoomCodeAny == Codes

\* the codes the do-while loop of generateRoomCode can end on
generateRoomCode == Codes \ DOMAIN gameSessions

createRoom(c, playerName) ==
    /\ conn[c] = "open"
    /\ \E roomCode \in generateRoomCode :
          /\ gameSessions' = PutSession(roomCode, NewSession(roomCode, c, playerName))
          /\ gained' = PutGained(roomCode, ZeroGained)
    /\ sent' = {Message(c, "ROOM_CREATED", "")}
    /\ UNCHANGED <<conn, timers>>

\* joinRoom with players.length > 8 for players.length >= 8 (C14)
joinRoomOffByOne(c, roomCode, playerName) ==
    /\ conn[c] = "open"
    /\ IF roomCode \notin DOMAIN gameSessions
       THEN /\ sent' = ErrorTo(c, "Room not found.")
            /\ UNCHANGED <<gameSessions, conn, timers, gained>>
       ELSE LET session == gameSessions[roomCode] IN
            IF Len(session.players) > RoomCapacity
            THEN /\ sent' = ErrorTo(c, "Room is full.")
                 /\ UNCHANGED <<gameSessions, conn, timers, gained>>
            ELSE LET joined == [session EXCEPT !.players =
                                   Append(@, NewPlayer(c, playerName))] IN
                 /\ gameSessions' = PutSession(roomCode, joined)
                 /\ sent' = {Message(c, "JOINED_ROOM", "")}
                            \cup broadcastToRoom(joined, conn, "UPDATE_GAME_STATE", c)
                 /\ UNCHANGED <<conn, timers, gained>>

\* joinRoom without the !session test: session.players throws on a code that
\* is not live and the catch of ws.on("message") answers (C18)
joinRoomUnchecked(c, roomCode, playerName) ==
    /\ conn[c] = "open"
    /\ IF roomCode \notin DOMAIN gameSessions
       THEN /\ sent' = ErrorTo(c, "Invalid message format.")
            /\ UNCHANGED <<gameSessions, conn, timers, gained>>
       ELSE LET session == gameSessions[roomCode] IN
            IF Len(session.players) >= RoomCapacity
            THEN /\ sent' = ErrorTo(c, "Room is full.")
                 /\ UNCHANGED <<gameSessions, conn, timers, gained>>
            ELSE LET joined == [session EXCEPT !.players =
                                   Append(@, NewPlayer(c, playerName))] IN
                 /\ gameSessions' = PutSession(roomCode, joined)
                 /\ sent' = {Message(c, "JOINED_ROOM", "")}
                            \cup broadcastToRoom(joined, conn, "UPDATE_GAME_STATE", c)
                 /\ UNCHANGED <<conn, timers, gained>>

joinRoom(c, roomCode, playerName) ==
    /\ conn[c] = "open"
    /\ IF roomCode \notin DOMAIN gameSessions
       THEN /\ sent' = ErrorTo(c, "Room not found.")
            /\ UNCHANGED <<gameSessions, conn, timers, gained>>
       ELSE LET session == gameSessions[roomCode] IN
            IF Len(session.players) >= RoomCapacity
            THEN /\ sent' = ErrorTo(c, "Room is full.")
                 /\ UNCHANGED <<gameSessions, conn, timers, gained>>
            ELSE LET joined == [session EXCEPT !.players =
                                   Append(@, NewPlayer(c, playerName))] IN
                 /\ gameSessions' = PutSession(roomCode, joined)
                 /\ sent' = {Message(c, "JOINED_ROOM", "")}
                            \cup broadcastToRoom(joined, conn, "UPDATE_GAME_STATE", c)
                 /\ UNCHANGED <<conn, timers, gained>>

\* ---- ws.on("close") -------------------------------------------------------------
RemoveAt(s, i) == SubSeq(s, 1, i - 1) \o SubSeq(s, i + 1, Len(s))

\* findIndex: the first index whose player has the client id
findIndex(players, clientId) ==
    LET hits == {i \in DOMAIN players : players[i].clientId = clientId}
    IN  CHOOSE i \in hits : \A j \in hits : i <= j

\* The for-in loop stops at the first room that holds the client; which of two
\* rooms comes first depends on the codes drawn (integer-like keys are
\* enumerated before the others), so any room holding the client can be it.
close(c) ==
    /\ conn[c] = "open"
    /\ conn' = [conn EXCEPT ![c] = "closed"]
    /\ LET holding == {r \in DOMAIN gameSessions : c \in PlayerIds(gameSessions[r])} IN
       IF holding = {}
       THEN /\ sent' = {}
            /\ UNCHANGED <<gameSessions, timers, gained>>
       ELSE \E roomCode \in holding :
            LET session == gameSessions[roomCode]
                left == [session EXCEPT !.players =
                            RemoveAt(@, findIndex(session.players, c))]
            IN  /\ IF Len(left.players) = 0
                   THEN /\ gameSessions' = DeleteSession(roomCode)
                        /\ gained' = [r \in DOMAIN gained \ {roomCode} |-> gained[r]]
                        /\ sent' = {}
                   ELSE /\ gameSessions' = PutSession(roomCode, left)
                        /\ gained' = gained
                        /\ sent' = broadcastToRoom(left, conn', "UPDATE_GAME_STATE", Null)
                /\ UNCHANGED timers

\* ---- startGame / startNewRound ---------------------------------------------------
includes(s, x) == x \in Range(s)

\* session.players.filter(p => !playersWhoHaveTyped.includes(p.clientId))
notYetTyped(session) ==
    SelectSeq(session.players,
              LAMBDA p : ~includes(session.rounds.playersWhoHaveTyped, p.clientId))

\* availablePlayers without the filter on playersWhoHaveTyped (C10)
availablePlayersAll(session) == session.players

\* availablePlayers after the "all players have typed" reset
availablePlayers(session) ==
    IF Len(notYetTyped(session)) = 0 THEN session.players ELSE notYetTyped(session)

\* playersWhoHaveTyped after the "all players have typed" reset
typedAfterReset(session) ==
    IF Len(notYetTyped(session)) = 0 THEN <<>> ELSE session.rounds.playersWhoHaveTyped

\* the session startNewRound leaves when Math.random picks availablePlayers[k]
newRound(session, k) ==
    LET randomPlayer == availablePlayers(session)[k] IN
    [session EXCEPT
        !.gameState = "TYPING",
        !.rounds = [currentTyperId |-> randomPlayer.clientId,
                    playersWhoHaveTyped |->
                        Append(typedAfterReset(session), randomPlayer.clientId),
                    submittedText |-> "",
                    votes |-> EmptyVotes]]

startNewRound(roomCode) ==
    IF roomCode \notin DOMAIN gameSessions
    THEN /\ sent' = {}
         /\ UNCHANGED <<gameSessions, gained>>
    ELSE LET session == gameSessions[roomCode] IN
         \E k \in 1..Len(availablePlayers(session)) :
            /\ gameSessions' = PutSession(roomCode, newRound(session, k))
            /\ gained' = PutGained(roomCode, ZeroGained)
            /\ sent' = broadcastToRoom(newRound(session, k), conn, "NEW_ROUND", Null)

\* the condition under which startGame goes on to startNewRound
startGameAccepts(c, roomCode) ==
    /\ roomCode \in DOMAIN gameSessions
    /\ gameSessions[roomCode].hostId = c
    /\ Len(gameSessions[roomCode].players) >= MinPlayers

startGame(c, roomCode) ==
    /\ conn[c] = "open"
    /\ UNCHANGED <<conn, timers>>
    /\ IF roomCode \notin DOMAIN gameSessions \/ gameSessions[roomCode].hostId # c
       THEN /\ sent' = {}
            /\ UNCHANGED <<gameSessions, gained>>
       ELSE IF ~startGameAccepts(c, roomCode)
            THEN /\ sent' = ErrorTo(c, "Need at least 3 players to start.")
                 /\ UNCHANGED <<gameSessions, gained>>
            ELSE startNewRound(roomCode)

\* case "NEXT_ROUND" of handleMessage
nextRound(c, roomCode) ==
    /\ conn[c] = "open"
    /\ UNCHANGED <<conn, timers>>
    /\ startNewRound(roomCode)

\* ---- submitText and its timer ----------------------------------------------------
\* the condition under which submitText does not return early
submitTextAccepts(c, roomCode) ==
    /\ roomCode \in DOMAIN gameSessions
    /\ gameSessions[roomCode].rounds.currentTyperId = c

\* A pending callback of setTimeout.  The closure captures roomCode, the one
\* field the callback reads; hostId and typed record which room and which round
\* scheduled it (a room's host never changes and has disconnected once the room
\* is deleted; startNewRound changes playersWhoHaveTyped in every round).
Timer(session) ==
    [roomCode |-> session.roomCode,
     hostId |-> session.hostId,
     typed |-> session.rounds.playersWhoHaveTyped]

submitText(c, roomCode, text) ==
    /\ conn[c] = "open"
    /\ IF ~submitTextAccepts(c, roomCode)
       THEN /\ sent' = {}
            /\ UNCHANGED <<gameSessions, conn, timers, gained>>
       ELSE LET reading == [gameSessions[roomCode] EXCEPT
                               !.rounds.submittedText = text,
                               !.gameState = "READING"] IN
            /\ gameSessions' = PutSession(roomCode, reading)
            /\ sent' = broadcastToRoom(reading, conn, "TEXT_SUBMITTED", Null)
            /\ timers' = Append(timers, Timer(reading))
            /\ UNCHANGED <<conn, gained>>

\* the setTimeout callback of submitText; equal delays fire in scheduling order
timeout ==
    /\ timers # <<>>
    /\ timers' = Tail(timers)
    /\ IF Head(timers).roomCode \in DOMAIN gameSessions
       THEN LET voting == [gameSessions[Head(timers).roomCode] EXCEPT
                              !.gameState = "VOTING"] IN
            /\ gameSessions' = PutSession(Head(timers).roomCode, voting)
            /\ sent' = broadcastToRoom(voting, conn, "VOTING_STARTED", Null)
       ELSE /\ sent' = {}
            /\ UNCHANGED gameSessions
    /\ UNCHANGED <<conn, gained>>

\* ---- handleVote / calculateScores -------------------------------------------------
\* votes[player.clientId] && votes[player.clientId] === typerId
votedForTyper(session, clientId) ==
    /\ clientId \in DOMAIN session.rounds.votes
    /\ session.rounds.votes[clientId] # Null
    /\ session.rounds.votes[clientId] = session.rounds.currentTyperId

scoredPlayers(session) ==
    [i \in DOMAIN session.players |->
        IF votedForTyper(session, session.players[i].clientId)
        THEN [session.players[i] EXCEPT !.score = @ + 1]
        ELSE session.players[i]]

gameHasWinner(session) ==
    \E i \in DOMAIN session.players :
        /\ votedForTyper(session, session.players[i].clientId)
        /\ scoredPlayers(session)[i].score >= WinScore

calculateScores(session) ==
    [session EXCEPT
        !.players = scoredPlayers(session),
        !.gameState = IF gameHasWinner(session) THEN "END" ELSE "SCORE"]

\* recordVote keeping the entry a voter already has: first write wins (C16)
recordVoteOnce(session, clientId, votedPlayerId) ==
    [session EXCEPT !.rounds.votes =
        [v \in DOMAIN @ \cup {clientId} |->
            IF v \in DOMAIN @ THEN @[v] ELSE votedPlayerId]]

\* session.rounds.votes[clientId] = votedPlayerId
recordVote(session, clientId, votedPlayerId) ==
    [session EXCEPT !.rounds.votes =
        [v \in DOMAIN @ \cup {clientId} |->
            IF v = clientId THEN votedPlayerId ELSE @[v]]]

\* session.players.filter(p => p.clientId !== typerId)
voters(session) ==
    SelectSeq(session.players, LAMBDA p : p.clientId # session.rounds.currentTyperId)

\* Object.keys(session.rounds.votes).length === voters.length
allVotesIn(session) ==
    Cardinality(DOMAIN session.rounds.votes) = Len(voters(session))

\* the condition under which handleVote does not return early
handleVoteAccepts(roomCode) ==
    /\ roomCode \in DOMAIN gameSessions
    /\ gameSessions[roomCode].gameState = "VOTING"

handleVote(c, roomCode, votedPlayerId) ==
    /\ conn[c] = "open"
    /\ UNCHANGED <<conn, timers>>
    /\ IF ~handleVoteAccepts(roomCode)
       THEN /\ sent' = {}
            /\ UNCHANGED <<gameSessions, gained>>
       ELSE LET voted == recordVote(gameSessions[roomCode], c, votedPlayerId) IN
            IF allVotesIn(voted)
            THEN /\ gameSessions' = PutSession(roomCode, calculateScores(voted))
                 /\ gained' = PutGained(roomCode,
                        [p \in Clients |->
                            IF p \in PlayerIds(voted) /\ votedForTyper(voted, p)
                            THEN gained[roomCode][p] + 1 ELSE gained[roomCode][p]])
                 /\ sent' = broadcastToRoom(calculateScores(voted), conn, "ROUND_OVER", Null)
            ELSE /\ gameSessions' = PutSession(roomCode, voted)
                 /\ sent' = {}
                 /\ UNCHANGED gained

\* ---- the rest of handleMessage ----------------------------------------------------
\* case "PLAY_SOUND"
playSound(c, roomCode, sound) ==
    /\ conn[c] = "open"
    /\ sent' = IF roomCode \in DOMAIN gameSessions
               THEN {Message(m.to, m.type, sound) :
                        m \in broadcastToRoom(gameSessions[roomCode], conn,
                                              "SOUND_PLAYED", Null)}
               ELSE {}
    /\ UNCHANGED <<gameSessions, conn, timers, gained>>

\* default: of the switch
unknownType(c) ==
    /\ conn[c] = "open"
    /\ sent' = ErrorTo(c, "Unknown message type.")
    /\ UNCHANGED <<gameSessions, conn, timers, gained>>

\* the catch of ws.on("message"): JSON.parse throws on a message that is not
\* JSON, "payload.ws = ws" throws on a message without a payload object, in
\* both cases before any handler has run
invalidMessage(c) ==
    /\ conn[c] = "open"
    /\ sent' = ErrorTo(c, "Invalid message format.")
    /\ UNCHANGED <<gameSessions, conn, timers, gained>>

Live == DOMAIN gameSessions

\* ---- the environment ---------------------------------------------------------------
InSomeRoom(c) == \E r \in DOMAIN gameSessions : c \in PlayerIds(gameSessions[r])

\* Client ids are random strings the server only compares for equality, and a
\* "connection" event commutes with the events of the other clients; the model
\* names the clients in the order in which they connect and first enter a room.
ConnectsNext(c) == \A d \in 1..(c - 1) : conn[d] # "none"

EntersNext(c) == \A d \in 1..(c - 1) : conn[d] = "closed" \/ InSomeRoom(d)

\* a client that is in a room does not ask to join it again
JoinsOnce(c, r) == r \in Live => c \notin PlayerIds(gameSessions[r])

\* Room codes are random strings the server only uses as keys: the model names
\* them in the order drawn, a new room taking the lowest code that is free.
DrawsNext ==
    \A r \in DOMAIN gameSessions' \ DOMAIN gameSessions :
        \A q \in Codes \ DOMAIN gameSessions : r <= q

\* the runs the model follows: rooms, scores and pending timers stay within the
\* bounds; a score is low or, in a late game, one point around the winning score
Bounded ==
    /\ Len(timers) <= MaxTimers
    /\ \A r \in DOMAIN gameSessions :
          /\ Len(gameSessions[r].players) <= MaxRoomSize
          /\ \A i \in DOMAIN gameSessions[r].players :
                \/ gameSessions[r].players[i].score <= MaxScore
                \/ gameSessions[r].players[i].score \in {WinScore - 1, WinScore}

Next ==
    \/ \E c \in Clients : ConnectsNext(c) /\ Connection(c) /\ Bounded'
    \/ \E c \in Clients, n \in PlayerNames : EntersNext(c) /\ Live = {} /\ createRoom(c, n) /\ DrawsNext /\ Bounded'
    \/ \E c \in Clients, r \in Codes, n \in PlayerNames : EntersNext(c) /\ JoinsOnce(c, r) /\ joinRoom(c, r, n) /\ Bounded'
    \/ \E c \in Clients : close(c) /\ Bounded'
    \/ \E c \in Clients, r \in Codes : startGame(c, r) /\ Bounded'
    \/ \E c \in Clients, r \in Codes : nextRound(c, r) /\ Bounded'
    \/ \E c \in Clients, r \in Codes, t \in Texts : submitText(c, r, t) /\ Bounded'
    \/ timeout /\ Bounded'
    \/ \E c \in Clients, r \in Codes, v \in VoteTargets : handleVote(c, r, v) /\ Bounded'
    \/ \E c \in Clients, r \in Codes, s \in Sounds : playSound(c, r, s) /\ Bounded'
    \/ \E c \in Clients : unknownType(c) /\ Bounded'
    \/ \E c \in Clients : invalidMessage(c) /\ Bounded'

Spec == Init /\ [][Next]_vars

\* ---- a late game --------------------------------------------------------------------
\* A room after the scoring of its 13th round: three players, four full typer
\* cycles played and the fifth begun with player 1 as typer; player 2 has guessed
\* the typer in all 9 rounds it voted in, players 1 and 3 never have.  All reading
\* timers have fired.
LateSession ==
    [roomCode |-> 1,
     hostId |-> 1,
     players |-> <<[clientId |-> 1, playerName |-> "ann", score |-> 0],
                   [clientId |-> 2, playerName |-> "ann", score |-> WinScore - 1],
                   [clientId |-> 3, playerName |-> "ann", score |-> 0]>>,
     gameState |-> "SCORE",
     rounds |-> [currentTyperId |-> 1,
                 playersWhoHaveTyped |-> <<1>>,
                 submittedText |-> "hello",
                 votes |-> [v \in {2, 3} |-> IF v = 2 THEN 1 ELSE 2]]]

InitEnd ==
    /\ gameSessions = [r \in {1} |-> LateSession]
    /\ conn = [c \in Clients |-> IF c <= 3 THEN "open" ELSE "none"]
    /\ timers = <<>>
    /\ sent = broadcastToRoom(LateSession, conn, "ROUND_OVER", Null)
    /\ gained = [r \in {1} |-> [c \in Clients |-> IF c = 2 THEN 1 ELSE 0]]

\* every client of the late game is in the room: none is left to connect, create or join
NextEnd ==
    \/ \E c \in Clients : close(c) /\ Bounded'
    \/ \E c \in Clients, r \in Codes : startGame(c, r) /\ Bounded'
    \/ \E c \in Clients, r \in Codes : nextRound(c, r) /\ Bounded'
    \/ \E c \in Clients, r \in Codes, t \in Texts : submitText(c, r, t) /\ Bounded'
    \/ timeout /\ Bounded'
    \/ \E c \in Clients, r \in Codes, v \in VoteTargets : handleVote(c, r, v) /\ Bounded'
    \/ \E c \in Clients, r \in Codes, s \in Sounds : playSound(c, r, s) /\ Bounded'
    \/ \E c \in Clients : unknownType(c) /\ Bounded'
    \/ \E c \in Clients : invalidMessage(c) /\ Bounded'

SpecEnd == InitEnd /\ [][NextEnd]_vars

\* ---- the typer rotation ---------------------------------------------------------------
\* players, playersWhoHaveTyped and currentTyperId are written by createRoom,
\* joinRoom, close and startNewRound only, and these read nothing the other
\* handlers write (the scores aside, which no handler of the rotation reads):
\* the rotation is followed with the other handlers left out.
\* startNewRound touches the room it is called for only: the rotation is
\* followed in one live room at a time.
NextRotation ==
    \/ \E c \in Clients : ConnectsNext(c) /\ Connection(c) /\ Bounded'
    \/ \E c \in Clients, n \in PlayerNames : EntersNext(c) /\ Live = {} /\ createRoom(c, n) /\ DrawsNext /\ Bounded'
    \/ \E c \in Clients, r \in Codes, n \in PlayerNames : EntersNext(c) /\ JoinsOnce(c, r) /\ joinRoom(c, r, n) /\ Bounded'
    \/ \E c \in Clients : close(c) /\ Bounded'
    \/ \E c \in Clients, r \in Codes : startGame(c, r) /\ Bounded'
    \/ \E c \in Clients, r \in Codes : nextRound(c, r) /\ Bounded'

SpecRotation == Init /\ [][NextRotation]_vars

\* ---- the vote ---------------------------------------------------------------------------
\* A room of three players whose first round has reached VOTING: client 1
\* created it, clients 2 and 3 joined, START_GAME picked player 1 as typer, the
\* typer's text was submitted and the reading timer has fired.
VotingSession ==
    [roomCode |-> 1,
     hostId |-> 1,
     players |-> <<NewPlayer(1, "ann"), NewPlayer(2, "ann"), NewPlayer(3, "ann")>>,
     gameState |-> "VOTING",
     rounds |-> [currentTyperId |-> 1,
                 playersWhoHaveTyped |-> <<1>>,
                 submittedText |-> "hello",
                 votes |-> EmptyVotes]]

InitVote ==
    /\ gameSessions = [r \in {1} |-> VotingSession]
    /\ conn = [c \in Clients |-> IF c <= 3 THEN "open" ELSE "none"]
    /\ timers = <<>>
    /\ sent = broadcastToRoom(VotingSession, conn, "VOTING_STARTED", Null)
    /\ gained = [r \in {1} |-> ZeroGained]

\* the votedPlayerId of a VOTE: any client id, or undefined when the field is missing
VotedIds == Clients \cup {Null}

\* the round is followed to its end: the votes, the closes and the messages no
\* handler takes
NextVote ==
    \/ \E c \in Clients : close(c) /\ Bounded'
    \/ \E c \in Clients, r \in Codes, v \in VotedIds : handleVote(c, r, v) /\ Bounded'
    \/ \E c \in Clients : unknownType(c) /\ Bounded'
    \/ \E c \in Clients : invalidMessage(c) /\ Bounded'

SpecVote == InitVote /\ [][NextVote]_vars

\* ---- the reading timer ------------------------------------------------------------------
\* The timer is followed from the lobby on: a room is created, a NEXT_ROUND in
\* the lobby gives it a typer, the typer submits and the members leave or stay
\* while the 40 seconds run; a room created after the last member has left draws
\* its code among the free ones, that of the deleted room included.  Node fires
\* every timer that is due: the callback is weakly fair.
NextTimer ==
    \/ \E c \in Clients : ConnectsNext(c) /\ Connection(c) /\ Bounded'
    \/ \E c \in Clients, n \in PlayerNames : EntersNext(c) /\ Live = {} /\ createRoom(c, n) /\ DrawsNext /\ Bounded'
    \/ \E c \in Clients, r \in Codes, n \in PlayerNames : EntersNext(c) /\ JoinsOnce(c, r) /\ joinRoom(c, r, n) /\ Bounded'
    \/ \E c \in Clients : close(c) /\ Bounded'
    \/ \E c \in Clients, r \in Live : gameSessions[r].gameState = "LOBBY" /\ nextRound(c, r) /\ Bounded'
    \/ \E c \in Clients, r \in Codes, t \in Texts : submitText(c, r, t) /\ Bounded'
    \/ timeout /\ Bounded'

SpecTimer == Init /\ [][NextTimer]_vars /\ WF_vars(timeout)

\* ---- the lobby ------------------------------------------------------------------------
\* The registry of rooms and the players lists are written by createRoom,
\* joinRoom and close only, which read nothing the game handlers write: the
\* lobby is followed with several rooms live at the same time and a client free
\* to create or join one room after the other.
\* the runs of the lobby: the rooms hold MaxRoomSize players between them
LobbyBounded ==
    Cardinality({<<r, i>> \in Codes \X (1..RoomCapacity) :
                    r \in Live /\ i \in DOMAIN gameSessions[r].players}) <= MaxRoomSize

NextLobby ==
    \/ \E c \in Clients : ConnectsNext(c) /\ Connection(c) /\ LobbyBounded'
    \/ \E c \in Clients, n \in PlayerNames : EntersNext(c) /\ createRoom(c, n) /\ DrawsNext /\ LobbyBounded'
    \/ \E c \in Clients, r \in Codes, n \in PlayerNames : EntersNext(c) /\ JoinsOnce(c, r) /\ joinRoom(c, r, n) /\ LobbyBounded'
    \/ \E c \in Clients : close(c) /\ LobbyBounded'

SpecLobby == Init /\ [][NextLobby]_vars

\* ---- a room filling up ------------------------------------------------------------------
\* joinRoom does not look for the client among the players: every JOIN_ROOM of
\* a client adds an entry.  A room is followed to its capacity with the clients
\* re-sending JOIN_ROOM; a client does so before the next one enters the room.
RejoinsLast(c, r) ==
    r \in Live =>
        \/ c \notin PlayerIds(gameSessions[r])
        \/ gameSessions[r].players[Len(gameSessions[r].players)].clientId = c

NextFull ==
    \/ \E c \in Clients : ConnectsNext(c) /\ Connection(c)
    \/ \E c \in Clients, n \in PlayerNames : EntersNext(c) /\ Live = {} /\ createRoom(c, n) /\ DrawsNext
    \/ \E c \in Clients, r \in Codes, n \in PlayerNames : EntersNext(c) /\ RejoinsLast(c, r) /\ joinRoom(c, r, n)
    \/ \E c \in Clients : close(c)

SpecFull == Init /\ [][NextFull]_vars

\* ---- the claims -------------------------------------------------------------------------
Typer(r) == gameSessions[r].rounds.currentTyperId

Votes(r) == gameSessions[r].rounds.votes

\* the score of the player entry findIndex finds for the client
ScoreOf(session, c) == session.players[findIndex(session.players, c)].score

\* C1: in every live room currentTyperId is null or the clientId of a player in
\* the room's players list.
ClaimC1 ==
    \A r \in Live : Typer(r) = Null \/ Typer(r) \in PlayerIds(gameSessions[r])

\* C2: in every live room currentTyperId is not a key of rounds.votes.
ClaimC2 ==
    \A r \in Live : Typer(r) \notin DOMAIN Votes(r)

\* C3: in every live room that has a current typer, rounds.votes has at most
\* players.length - 1 keys.
ClaimC3 ==
    \A r \in Live :
        Typer(r) # Null =>
            Cardinality(DOMAIN Votes(r)) <= Len(gameSessions[r].players) - 1

\* C4: no player's score decreases; a step raises a score by exactly 1, only of
\* a player whose recorded vote names the round's typer, and only if the score
\* was not raised before in the same round (since the last startNewRound).
ClaimC4 ==
    [][\A r \in Live \cap DOMAIN gameSessions' :
        \A c \in PlayerIds(gameSessions[r]) \cap PlayerIds(gameSessions'[r]) :
            LET before == ScoreOf(gameSessions[r], c)
                after == ScoreOf(gameSessions'[r], c)
            IN  /\ after >= before
                /\ after > before =>
                      /\ after = before + 1
                      /\ votedForTyper(gameSessions'[r], c)
                      /\ gained[r][c] = 0]_vars

\* C5: a SUBMIT_TEXT from a client that is not the room's typer, or in a phase
\* other than TYPING, changes no room, schedules no timer and sends no message.
ClaimC5 ==
    [][\A c \in Clients, r \in Codes, t \in Texts :
        /\ submitText(c, r, t)
        /\ ~(r \in Live /\ Typer(r) = c /\ gameSessions[r].gameState = "TYPING")
        => /\ UNCHANGED <<gameSessions, timers>>
           /\ sent' = {}]_vars

\* C6: a NEXT_ROUND in a phase other than SCORE, or from a client other than
\* the host, leaves the room's phase, typer, votes and submittedText unchanged.
ClaimC6 ==
    [][\A c \in Clients, r \in Codes :
        /\ nextRound(c, r)
        /\ r \in Live
        /\ ~(gameSessions[r].gameState = "SCORE" /\ gameSessions[r].hostId = c)
        => /\ gameSessions'[r].gameState = gameSessions[r].gameState
           /\ gameSessions'[r].rounds.currentTyperId = Typer(r)
           /\ gameSessions'[r].rounds.votes = Votes(r)
           /\ gameSessions'[r].rounds.submittedText
                 = gameSessions[r].rounds.submittedText]_vars

\* C7: a START_GAME changes a room only when the room is in LOBBY, the sender
\* is its host and it has at least 3 players.
ClaimC7 ==
    [][\A c \in Clients, r \in Codes :
        /\ startGame(c, r)
        /\ ~(/\ r \in Live
             /\ gameSessions[r].gameState = "LOBBY"
             /\ gameSessions[r].hostId = c
             /\ Len(gameSessions[r].players) >= MinPlayers)
        => UNCHANGED gameSessions]_vars

PhaseEdges ==
    {<<"LOBBY", "TYPING">>, <<"TYPING", "READING">>, <<"READING", "VOTING">>,
     <<"VOTING", "SCORE">>, <<"VOTING", "END">>, <<"SCORE", "TYPING">>}

\* C8: every change of a room's phase follows one of the edges LOBBY->TYPING,
\* TYPING->READING, READING->VOTING, VOTING->SCORE, VOTING->END, SCORE->TYPING.
ClaimC8 ==
    [][\A r \in Live \cap DOMAIN gameSessions' :
        \/ gameSessions'[r].gameState = gameSessions[r].gameState
        \/ <<gameSessions[r].gameState, gameSessions'[r].gameState>> \in PhaseEdges]_vars

\* C9: once a room's phase is END, no step changes its phase, its typer, its
\* votes or the score of a player who stays in it.
ClaimC9 ==
    [][\A r \in Live \cap DOMAIN gameSessions' :
        gameSessions[r].gameState = "END" =>
            /\ gameSessions'[r].gameState = "END"
            /\ gameSessions'[r].rounds.currentTyperId = Typer(r)
            /\ gameSessions'[r].rounds.votes = Votes(r)
            /\ \A c \in PlayerIds(gameSessions[r]) \cap PlayerIds(gameSessions'[r]) :
                  ScoreOf(gameSessions'[r], c) = ScoreOf(gameSessions[r], c)]_vars

\* a step in which startNewRound runs on room r
StartsRound(r) ==
    /\ r \in Live \cap DOMAIN gameSessions'
    /\ gameSessions'[r].gameState = "TYPING"
    /\ gameSessions'[r].players = gameSessions[r].players
    /\ \E c \in Clients : nextRound(c, r) \/ (startGameAccepts(c, r) /\ startGame(c, r))

\* C10: startNewRound picks a player of the room; it picks one who has typed in
\* the running cycle only when every player of the room has, and then the cycle
\* restarts with playersWhoHaveTyped holding the pick alone; otherwise the pick
\* is appended, so no id is ever twice in playersWhoHaveTyped.
TheoremC10 ==
    [][\A r \in Codes :
        StartsRound(r) =>
            LET typed == gameSessions[r].rounds.playersWhoHaveTyped
                typed2 == gameSessions'[r].rounds.playersWhoHaveTyped
                pick == gameSessions'[r].rounds.currentTyperId
                all == PlayerIds(gameSessions[r])
            IN  /\ pick \in all
                /\ pick \in Range(typed) => all \subseteq Range(typed)
                /\ IF all \subseteq Range(typed)
                   THEN typed2 = <<pick>>
                   ELSE typed2 = Append(typed, pick)
                /\ \A i, j \in DOMAIN typed2 : typed2[i] = typed2[j] => i = j]_vars

\* C10 witness: a room of at least 3 players in which a full cycle has been
\* played, every player having typed exactly once.
WitnessC10 ==
    \E r \in Live :
        /\ Len(gameSessions[r].players) >= 3
        /\ Len(gameSessions[r].rounds.playersWhoHaveTyped) = Len(gameSessions[r].players)
        /\ Range(gameSessions[r].rounds.playersWhoHaveTyped) = PlayerIds(gameSessions[r])
        /\ gameSessions[r].gameState = "TYPING"

\* C11: no room is in phase SCORE while one of its players has a score of 10 or
\* more (after calculateScores the phase is END if some player has, SCORE if none).
ClaimC11 ==
    \A r \in Live :
        gameSessions[r].gameState = "SCORE" =>
            \A i \in DOMAIN gameSessions[r].players :
                gameSessions[r].players[i].score < WinScore

\* C12: in every live room hostId is the clientId of a player in the room's
\* players list.
ClaimC12 ==
    \A r \in Live : gameSessions[r].hostId \in PlayerIds(gameSessions[r])

\* C13: between two handlers no live room has an empty players list: the close
\* that removes a room's last player deletes the room in the same step.
TheoremC13 ==
    \A r \in Live : Len(gameSessions[r].players) >= 1

\* C13 witness: a room has been deleted by the close of its last player while
\* a room created after it lives on.
WitnessC13 ==
    /\ \E c \in Clients : conn[c] = "closed"
    /\ \E q \in Live : \E r \in Codes \ Live : r < q

\* C14: a live room never has more than 8 entries in players; a JOIN_ROOM for
\* a room that has 8 is answered with the "Room is full." ERROR to the sender
\* alone and changes no room.
TheoremC14 ==
    /\ [](\A r \in Live : Len(gameSessions[r].players) <= 8)
    /\ [][\A c \in Clients, r \in Codes, n \in PlayerNames :
            /\ r \in Live
            /\ Len(gameSessions[r].players) >= 8
            /\ joinRoom(c, r, n)
            => /\ sent' = {Message(c, "ERROR", "Room is full.")}
               /\ UNCHANGED gameSessions]_vars

\* C14 witness: a JOIN_ROOM has just been refused by a room of 8 entries.
WitnessC14 ==
    \E r \in Live, c \in Clients :
        /\ Len(gameSessions[r].players) = 8
        /\ sent = {Message(c, "ERROR", "Room is full.")}

\* C15: a client whose connection has closed is in the players list of no
\* live room.
ClaimC15 ==
    \A c \in Clients :
        conn[c] = "closed" =>
            \A r \in Live : c \notin PlayerIds(gameSessions[r])

\* C16: a VOTE during VOTING from a voter who already has an entry in votes
\* replaces that entry by the new votedPlayerId, leaves the number of entries
\* as it was and every other voter's entry unchanged.
TheoremC16 ==
    [][\A r \in Live :
        gameSessions[r].gameState = "VOTING" =>
            \A c \in DOMAIN Votes(r), v \in VotedIds :
                handleVote(c, r, v) =>
                    LET votes2 == gameSessions'[r].rounds.votes IN
                    /\ votes2[c] = v
                    /\ Cardinality(DOMAIN votes2) = Cardinality(DOMAIN Votes(r))
                    /\ \A d \in DOMAIN Votes(r) \ {c} :
                          d \in DOMAIN votes2 /\ votes2[d] = Votes(r)[d]]_vars

\* C16 witness: a room in VOTING in which a player other than the typer has
\* an entry in votes, naming a player, while a vote is still awaited: the
\* voter's next VOTE finds the entry.
WitnessC16 ==
    \E r \in Live :
        /\ gameSessions[r].gameState = "VOTING"
        /\ \E c \in DOMAIN Votes(r) :
              /\ c \in PlayerIds(gameSessions[r])
              /\ c # Typer(r)
              /\ Votes(r)[c] \in PlayerIds(gameSessions[r])
              /\ conn[c] = "open"

\* C17: a START_GAME for a room in LOBBY from a client that is not the host, or
\* from the host of a room with fewer than 3 players, is answered with an ERROR
\* message to the sender; no message goes to anyone else and the phase stays LOBBY.
ClaimC17 ==
    [][\A r \in Live :
        gameSessions[r].gameState = "LOBBY" =>
            \A c \in Clients :
                /\ gameSessions[r].hostId # c \/ Len(gameSessions[r].players) < MinPlayers
                /\ startGame(c, r)
                => /\ sent' # {}
                   /\ \A m \in sent' : m.to = c /\ m.type = "ERROR"
                   /\ gameSessions'[r].gameState = "LOBBY"]_vars

\* C18: a JOIN_ROOM naming a code that is not a live room is answered with the
\* "Room not found." ERROR to the sender alone, and creates or changes no room.
TheoremC18 ==
    [][\A r \in Codes \ Live :
        \A c \in Clients, n \in PlayerNames :
            joinRoom(c, r, n) =>
                /\ sent' = {Message(c, "ERROR", "Room not found.")}
                /\ UNCHANGED gameSessions]_vars

\* C18 witness: a JOIN_ROOM has just been refused with "Room not found." while
\* every code that is not live was drawn before that of a live room: the code
\* named is that of a room deleted at the close of its last player.
WitnessC18 ==
    /\ \E c \in Clients : sent = {Message(c, "ERROR", "Room not found.")}
    /\ \E q \in Live : \A r \in Codes \ Live : r < q
    /\ Live # Codes

\* C19: a message of unknown type, a message without a payload object and a
\* VOTE without votedPlayerId are each answered with an ERROR message to the
\* sender alone, change no room and leave the connection open.
ClaimC19 ==
    [][\A c \in Clients :
        \/ unknownType(c)
        \/ invalidMessage(c)
        \/ \E r \in Codes : handleVote(c, r, Null)
        => /\ sent' # {}
           /\ \A m \in sent' : m.to = c /\ m.type = "ERROR"
           /\ UNCHANGED <<gameSessions, conn>>]_vars

\* C20: the keys of gameSessions are the codes of the live rooms, one room per
\* code; createRoom adds exactly one room, under a code that was not a key, and
\* leaves every room that was live as it was.
TheoremC20 ==
    /\ [](\A r \in Live : gameSessions[r].roomCode = r)
    /\ [][\A c \in Clients, n \in PlayerNames :
            createRoom(c, n) =>
                /\ \A r \in Live :
                      r \in DOMAIN gameSessions' /\ gameSessions'[r] = gameSessions[r]
                /\ \E q \in Codes \ Live :
                      /\ DOMAIN gameSessions' = Live \cup {q}
                      /\ gameSessions'[q] = NewSession(q, c, n)]_vars

\* C20 witness: a room has just been created while another room is live.
WitnessC20 ==
    /\ Cardinality(Live) >= 2
    /\ \E c \in Clients : sent = {Message(c, "ROOM_CREATED", "")}

\* C21: when the VOTE of a player other than the typer is recorded in VOTING
\* and every player of the room other than the typer then has an entry in
\* votes, calculateScores runs in the same step: the phase becomes SCORE or
\* END, also after players have left the room.
ClaimC21 ==
    [][\A r \in Live :
        gameSessions[r].gameState = "VOTING" =>
            \A c \in PlayerIds(gameSessions[r]) \ {Typer(r)}, v \in VotedIds :
                /\ handleVote(c, r, v)
                /\ \A p \in PlayerIds(gameSessions'[r]) \ {Typer(r)} :
                      p \in DOMAIN gameSessions'[r].rounds.votes
                => gameSessions'[r].gameState \in {"SCORE", "END"}]_vars

\* the messages of one of the five room messages, sent by client c for room r
RoomMessage(c, r) ==
    \/ \E v \in VoteTargets : handleVote(c, r, v)
    \/ \E t \in Texts : submitText(c, r, t)
    \/ startGame(c, r)
    \/ nextRound(c, r)
    \/ \E s \in Sounds : playSound(c, r, s)

\* C24: a VOTE, SUBMIT_TEXT, START_GAME, NEXT_ROUND or PLAY_SOUND from a client
\* that is not in the players list of the room it names leaves that room as it
\* was and sends no message to a player of that room.
ClaimC24 ==
    [][\A r \in Live :
        \A c \in Clients \ PlayerIds(gameSessions[r]) :
            RoomMessage(c, r) =>
                /\ r \in DOMAIN gameSessions'
                /\ gameSessions'[r] = gameSessions[r]
                /\ \A m \in sent' : m.to \notin PlayerIds(gameSessions[r])]_vars

\* the entries a client has in the players lists of the live rooms
EntriesOf(c) ==
    {<<r, i>> \in Codes \X (1..RoomCapacity) :
        /\ r \in Live
        /\ i \in DOMAIN gameSessions[r].players
        /\ gameSessions[r].players[i].clientId = c}

\* C25: every client id is in the players list of at most one live room, and
\* at most once in it.
ClaimC25 ==
    \A c \in Clients : Cardinality(EntriesOf(c)) <= 1

\* the room that scheduled timer t is live: a room under t's code with t's host
SameRoom(t) ==
    /\ t.roomCode \in Live
    /\ gameSessions[t.roomCode].hostId = t.hostId

\* a timer scheduled by the room of host h under code r is pending
Pending(r, h) ==
    \E i \in DOMAIN timers : timers[i].roomCode = r /\ timers[i].hostId = h

\* the room of host h under code r has just been put in VOTING, VOTING_STARTED
\* going to its members
VotingStarted(r, h) ==
    /\ r \in Live
    /\ gameSessions[r].hostId = h
    /\ gameSessions[r].gameState = "VOTING"
    /\ sent = broadcastToRoom(gameSessions[r], conn, "VOTING_STARTED", Null)

\* C22: the timer being fair, a submitText that was accepted is followed by
\* the room being put in VOTING with VOTING_STARTED sent to its members, unless
\* the room has been deleted; the timer of a deleted room changes nothing when
\* it fires; no step other than the firing takes a pending timer away.
ClaimC22 ==
    /\ \A r \in Codes, h \in Clients :
          Pending(r, h) ~> (VotingStarted(r, h) \/ ~(r \in Live /\ gameSessions[r].hostId = h))
    /\ [][/\ timers # <<>> /\ timeout /\ ~SameRoom(Head(timers))
             => UNCHANGED gameSessions /\ sent' = {}
          /\ \/ timers # <<>> /\ timeout
             \/ /\ Len(timers') >= Len(timers)
                /\ SubSeq(timers', 1, Len(timers)) = timers]_vars

\* C23: a timer that fires changes a room only if the room is the one that
\* scheduled it, is in READING and is in the round in which the text was
\* submitted.
ClaimC23 ==
    [][timers # <<>> /\ timeout /\ gameSessions' # gameSessions
       => /\ SameRoom(Head(timers))
          /\ gameSessions[Head(timers).roomCode].gameState = "READING"
          /\ gameSessions[Head(timers).roomCode].rounds.playersWhoHaveTyped
                = Head(timers).typed]_vars
====
